---- MODULE Spec2Model ----
(***************************************************************************)
(* Model of the response-parsing and safe-apply pipeline of the AI         *)
(* terminal add-on: AIAgent (src/app/ai_agent.py) and ConfigManager        *)
(* (src/ai-terminal/app/config_manager.py).                                *)
(*                                                                         *)
(* A Python str is a sequence of atoms (TLA+ strings): the atoms "."," ",  *)
(* ",", "\n", "# FILE:" and the triple backtick stand for themselves, every other atom   *)
(* is a run of characters holding none of them.  split, join, strip,       *)
(* startswith and replace are computed on these sequences.                 *)
(* A file system is a function from paths <<directory, name>> to           *)
(* [data, mtime]; dirs is the set of directories that exist.               *)
(***************************************************************************)
EXTENDS Integers, Sequences, FiniteSets, TLC

VARIABLES fs, dirs, clock, env, agent, pc, batch, results, ret, io, fs0, dirs0, cm, call, runs

vars == <<fs, dirs, clock, env, agent, pc, batch, results, ret, io, fs0, dirs0, cm, call, runs>>

\* ------------------------------------------------------------------ bounds
MaxClock == 1
MaxRuns == 2

\* ------------------------------------------------------------- str helpers
NL == "\n"
DOT == "."
SP == " "
COMMA == ","
FILE_MARKER == "# FILE:"
\* the triple-backtick fence, one atom
FENCE == "[fence]"

RECURSIVE lstrip(_)
lstrip(s) == IF s # <<>> /\ Head(s) \in {SP, NL} THEN lstrip(Tail(s)) ELSE s

RECURSIVE rstrip(_)
rstrip(s) ==
    IF s # <<>> /\ s[Len(s)] \in {SP, NL} THEN rstrip(SubSeq(s, 1, Len(s) - 1)) ELSE s

\* str.strip()
strip(s) == rstrip(lstrip(s))

\* str.startswith(p)
startswith(s, p) == Len(s) >= Len(p) /\ SubSeq(s, 1, Len(p)) = p

\* str.split(sep) for a one-atom separator: always at least one piece
RECURSIVE split(_, _)
split(s, sep) ==
    IF \A i \in 1..Len(s) : s[i] # sep
    THEN <<s>>
    ELSE LET i == CHOOSE j \in 1..Len(s) : s[j] = sep /\ \A k \in 1..(j - 1) : s[k] # sep
         IN  <<SubSeq(s, 1, i - 1)>> \o split(SubSeq(s, i + 1, Len(s)), sep)

\* sep.join(parts)
RECURSIVE join(_, _)
join(parts, sep) ==
    IF parts = <<>> THEN <<>>
    ELSE IF Len(parts) = 1 THEN parts[1]
    ELSE parts[1] \o <<sep>> \o join(Tail(parts), sep)

\* str.replace(tok, "") for a one-atom tok
RECURSIVE replace(_, _)
replace(s, tok) ==
    IF s = <<>> THEN <<>>
    ELSE IF Head(s) = tok THEN replace(Tail(s), tok)
    ELSE <<Head(s)>> \o replace(Tail(s), tok)

\* datetime.now().strftime("%Y%m%d_%H%M%S"): one atom per clock second, no dot in it
strftime(t) == ToString(t)

\* ------------------------------------------------------------------- names
automations_yaml == <<"automations", DOT, "yaml">>
scripts_yaml == <<"scripts", DOT, "yaml">>
scenes_yaml == <<"scenes", DOT, "yaml">>
secrets_yaml == <<"secrets", DOT, "yaml">>
Scripts_yaml == <<"Scripts", DOT, "yaml">>
automations_ai_yaml == <<"automations", DOT, "ai", DOT, "yaml">>

\* ------------------------------------------------------------- directories
CONFIG_DIR == "/config"
BACKUP_DIR == "/config/.ai_backups"
SANDBOX_DIR == "/config/ai_sandbox"

\* pathlib: directory / name
PathJoin(dir, name) == <<dir, name>>

\* PurePath.suffix of a name: from the last dot, when that dot is neither the
\* first nor the last character
HasSuffix(name) ==
    \E i \in 2..(Len(name) - 1) : name[i] = DOT /\ \A k \in (i + 1)..Len(name) : name[k] # DOT

Stem(name) ==
    LET i == CHOOSE j \in 2..(Len(name) - 1) :
                 name[j] = DOT /\ \A k \in (j + 1)..Len(name) : name[k] # DOT
    IN  SubSeq(name, 1, i - 1)

\* PurePath.with_suffix(suffix)
with_suffix(path, suffix) ==
    <<path[1], (IF HasSuffix(path[2]) THEN Stem(path[2]) ELSE path[2]) \o suffix>>

AI_YAML == <<DOT, "ai", DOT, "yaml">>

\* ------------------------------------------------------------- file system
exists(f, path) == path \in DOMAIN f

File(data, mtime) == [data |-> data, mtime |-> mtime]

Put(f, path, file) == (path :> file) @@ f

\* One I/O event of the log: what was attempted, on which path, from which
\* source (a copy), whether the target existed, what the target's data was,
\* and whether the attempt succeeded.
Event(op, path, src, f, ok) ==
    [op |-> op, path |-> path, src |-> src, existed |-> exists(f, path),
     old |-> IF exists(f, path) THEN f[path].data ELSE <<>>, ok |-> ok]

NoPath == <<"", <<>>>>

\* A world threads the file system, the directories, the event log and a
\* raised exception through the statements of one handler; fail is the
\* ordinal of the I/O statement that raises OSError (0: none does), and torn
\* tells whether that statement had already opened and truncated its target.
World(f, d, log, fail, torn) ==
    [fs |-> f, dirs |-> d, io |-> log, fail |-> fail, torn |-> torn, n |-> 0, exc |-> "none"]

Raise(w, e) == [w EXCEPT !.exc = e]

Fails(w, path) == w.n + 1 = w.fail \/ path[1] \notin w.dirs

\* What a failed write leaves of its target: nothing changed when the open
\* failed, an empty file when the write failed after the open
Torn(w, path, now) ==
    IF w.torn /\ path[1] \in w.dirs THEN Put(w.fs, path, File(<<>>, now)) ELSE w.fs

\* Path.write_text(content): creates or truncates the file, mtime is now
write_text(w, path, content, now) ==
    IF w.exc # "none" THEN w
    ELSE IF Fails(w, path)
    THEN [w EXCEPT !.n = @ + 1, !.exc = "OSError", !.fs = Torn(w, path, now),
                   !.io = Append(@, Event("write", path, NoPath, w.fs, FALSE))]
    ELSE [w EXCEPT !.n = @ + 1, !.fs = Put(@, path, File(content, now)),
                   !.io = Append(@, Event("write", path, NoPath, w.fs, TRUE))]

\* shutil.copy(src, dst): data and mode, mtime is now
shutil_copy(w, src, dst, now) ==
    IF w.exc # "none" THEN w
    ELSE IF ~exists(w.fs, src)
    THEN [w EXCEPT !.n = @ + 1, !.exc = "OSError",
                   !.io = Append(@, Event("copy", dst, src, w.fs, FALSE))]
    ELSE IF Fails(w, dst)
    THEN [w EXCEPT !.n = @ + 1, !.exc = "OSError", !.fs = Torn(w, dst, now),
                   !.io = Append(@, Event("copy", dst, src, w.fs, FALSE))]
    ELSE [w EXCEPT !.n = @ + 1, !.fs = Put(@, dst, File(w.fs[src].data, now)),
                   !.io = Append(@, Event("copy", dst, src, w.fs, TRUE))]

\* shutil.copy2(src, dst): data and metadata, the source's mtime included
shutil_copy2(w, src, dst, now) ==
    IF w.exc # "none" THEN w
    ELSE IF ~exists(w.fs, src)
    THEN [w EXCEPT !.n = @ + 1, !.exc = "OSError",
                   !.io = Append(@, Event("copy", dst, src, w.fs, FALSE))]
    ELSE IF Fails(w, dst)
    THEN [w EXCEPT !.n = @ + 1, !.exc = "OSError", !.fs = Torn(w, dst, now),
                   !.io = Append(@, Event("copy", dst, src, w.fs, FALSE))]
    ELSE [w EXCEPT !.n = @ + 1, !.fs = Put(@, dst, File(w.fs[src].data, w.fs[src].mtime)),
                   !.io = Append(@, Event("copy", dst, src, w.fs, TRUE))]

\* Path.mkdir(parents=True, exist_ok=True)
mkdir(w, dir) ==
    IF w.exc # "none" THEN w
    ELSE [w EXCEPT !.dirs = @ \cup {dir},
                   !.io = IF dir \in w.dirs THEN @
                          ELSE Append(@, [op |-> "mkdir", path |-> <<dir, <<>>>>, src |-> NoPath,
                                          existed |-> FALSE, old |-> <<>>, ok |-> TRUE])]

\* ----------------------------------------------------------- ConfigManager
None == <<>>

Result(w, val) == [w |-> w, val |-> val]

\* The contents written in the model
DataA == <<"a">>
DataB == <<"b">>
DataS == <<"secret">>

backup_name(filename, now) == filename \o <<DOT, strftime(now), DOT, "bak">>

\* ConfigManager.__init__: the fields, and the two directories created
ConfigManager(config_dir, backup_dir, sandbox_dir, allowed_files) ==
    [config_dir |-> config_dir, backup_dir |-> backup_dir, sandbox_dir |-> sandbox_dir,
     allowed_files |-> allowed_files]

ConfigManager_mkdirs(w, self) == mkdir(mkdir(w, self.backup_dir), self.sandbox_dir)

\* str.lower() of the atoms of the model
lower(s) == [i \in DOMAIN s |-> IF s[i] = "Scripts" THEN "scripts" ELSE s[i]]

\* is_file_allowed with a case-insensitive comparison
is_file_allowed_nocase(self, filename) ==
    \E i \in 1..Len(self.allowed_files) : lower(self.allowed_files[i]) = lower(filename)

is_file_allowed(self, filename) ==
    \E i \in 1..Len(self.allowed_files) : self.allowed_files[i] = filename

get_file_path(self, w, filename) ==
    IF ~is_file_allowed(self, filename)
    THEN Result(Raise(w, "PermissionError"), None)
    ELSE Result(w, PathJoin(self.config_dir, filename))

read_file(self, w, filename) ==
    LET r == get_file_path(self, w, filename)
    IN  IF r.w.exc # "none" THEN r
        ELSE IF ~exists(w.fs, r.val) THEN Result(w, <<>>)
        ELSE Result(w, w.fs[r.val].data)

create_backup(self, w, filename, now) ==
    LET filepath == PathJoin(self.config_dir, filename)
        backup_path == PathJoin(self.backup_dir, backup_name(filename, now))
    IN  IF ~exists(w.fs, filepath) THEN Result(w, None)
        ELSE Result(shutil_copy2(w, filepath, backup_path, now), backup_path)

\* write_file that never takes the backup
write_file_nobackup(self, w, filename, content, backup, now) ==
    LET r == get_file_path(self, w, filename)
    IN  IF r.w.exc # "none" THEN r
        ELSE Result(write_text(w, r.val, content, now), r.val)

write_file(self, w, filename, content, backup, now) ==
    LET r == get_file_path(self, w, filename)
        filepath == r.val
        w1 == IF backup /\ exists(w.fs, filepath)
              THEN create_backup(self, w, filename, now).w
              ELSE w
    IN  IF r.w.exc # "none" THEN r
        ELSE Result(write_text(w1, filepath, content, now), filepath)

write_to_sandbox(self, w, filename, content, now) ==
    LET sandbox_path == PathJoin(self.sandbox_dir, filename)
    IN  Result(write_text(w, sandbox_path, content, now), sandbox_path)

\* A recovery that takes the name to be <stem>.<extension>
original_name_two_parts(name) ==
    LET parts == split(name, DOT)
    IN  join(SubSeq(parts, 1, 2), DOT)

\* ".".join(backup_name.split(".")[:-2])
original_name(name) ==
    LET parts == split(name, DOT)
    IN  join(SubSeq(parts, 1, Len(parts) - 2), DOT)

\* restore_backup without the safety backup of the current live file
restore_backup_nosafety(self, w, backup_path, now) ==
    LET original == original_name(backup_path[2])
        target_path == PathJoin(self.config_dir, original)
    IN  IF ~is_file_allowed(self, original)
        THEN Result(Raise(w, "PermissionError"), None)
        ELSE Result(shutil_copy2(w, backup_path, target_path, now), target_path)

\* restore_backup without the allow-list check of the derived name
restore_backup_unchecked(self, w, backup_path, now) ==
    LET original == original_name(backup_path[2])
        target_path == PathJoin(self.config_dir, original)
        w1 == IF exists(w.fs, target_path)
              THEN create_backup(self, w, original, now).w
              ELSE w
    IN  Result(shutil_copy2(w1, backup_path, target_path, now), target_path)

restore_backup(self, w, backup_path, now) ==
    LET original == original_name(backup_path[2])
        target_path == PathJoin(self.config_dir, original)
        w1 == IF exists(w.fs, target_path)
              THEN create_backup(self, w, original, now).w
              ELSE w
    IN  IF ~is_file_allowed(self, original)
        THEN Result(Raise(w, "PermissionError"), None)
        ELSE Result(shutil_copy2(w1, backup_path, target_path, now), target_path)

\* What a call left behind: the world's file system, directories and log,
\* the call and what it returned or raised; fs0 and dirs0 keep the file
\* system the call started from.
Returns(r, c) ==
    \E v \in {r} :
        /\ fs0' = fs
        /\ dirs0' = dirs
        /\ fs' = v.w.fs
        /\ dirs' = v.w.dirs
        /\ io' = v.w.io
        /\ call' = c
        /\ ret' = [exc |-> v.w.exc, val |-> IF v.w.exc = "none" THEN v.val ELSE None]

\* The file names and backup paths the calls are tried with
CMNames == {scripts_yaml, Scripts_yaml, secrets_yaml}
CMContents == {DataA, DataB}
CMBackupPaths ==
    {PathJoin(cm.backup_dir, backup_name(scripts_yaml, t)) : t \in 0..MaxClock}
        \cup {PathJoin(cm.backup_dir, backup_name(secrets_yaml, 0))}

\* The I/O statements a call attempts when none fails: the ordinals at which
\* a failure can be injected
Attempts(r) == r.w.n

CMFrame == UNCHANGED <<clock, env, agent, pc, batch, results, cm, runs>>

CM_get_file_path ==
    \E filename \in CMNames :
        /\ Returns(get_file_path(cm, World(fs, dirs, <<>>, 0, FALSE), filename),
                   [op |-> "get_file_path", filename |-> filename])
        /\ CMFrame

CM_read_file ==
    \E filename \in CMNames :
        /\ Returns(read_file(cm, World(fs, dirs, <<>>, 0, FALSE), filename),
                   [op |-> "read_file", filename |-> filename])
        /\ CMFrame

CM_write_file ==
    \E filename \in CMNames, content \in CMContents, backup \in BOOLEAN :
      \E fail \in 0..Attempts(write_file(cm, World(fs, dirs, <<>>, 0, FALSE), filename, content, backup, clock)) :
      \E torn \in (IF fail = 0 THEN {FALSE} ELSE BOOLEAN) :
        /\ Returns(write_file(cm, World(fs, dirs, <<>>, fail, torn), filename, content, backup, clock),
                   [op |-> "write_file", filename |-> filename, content |-> content,
                    create_backup |-> backup, now |-> clock])
        /\ CMFrame

CM_create_backup ==
    \E filename \in {scripts_yaml, Scripts_yaml} :
      \E fail \in 0..Attempts(create_backup(cm, World(fs, dirs, <<>>, 0, FALSE), filename, clock)) :
      \E torn \in (IF fail = 0 THEN {FALSE} ELSE BOOLEAN) :
        /\ Returns(create_backup(cm, World(fs, dirs, <<>>, fail, torn), filename, clock),
                   [op |-> "create_backup", filename |-> filename, now |-> clock])
        /\ CMFrame

CM_restore_backup ==
    \E backup_path \in CMBackupPaths :
      \E fail \in 0..Attempts(restore_backup(cm, World(fs, dirs, <<>>, 0, FALSE), backup_path, clock)) :
      \E torn \in (IF fail = 0 THEN {FALSE} ELSE BOOLEAN) :
        /\ Returns(restore_backup(cm, World(fs, dirs, <<>>, fail, torn), backup_path, clock),
                   [op |-> "restore_backup", backup_path |-> backup_path, now |-> clock])
        /\ CMFrame

\* The wall clock passes to the next second
Tick ==
    /\ clock < MaxClock
    /\ clock' = clock + 1
    /\ UNCHANGED <<fs, dirs, env, agent, pc, batch, results, ret, io, fs0, dirs0, cm, call, runs>>

NoCall == [op |-> "none"]
NoRet == [exc |-> "none", val |-> None]

\* A ConfigManager constructed over a configuration root that holds the
\* not allow-listed secrets.yaml and may hold scripts.yaml; the backup
\* directory holds a backup of secrets.yaml taken in second 0
InitCM ==
    /\ cm = ConfigManager(CONFIG_DIR, BACKUP_DIR, SANDBOX_DIR, <<scripts_yaml, scenes_yaml>>)
    /\ dirs = {CONFIG_DIR, BACKUP_DIR, SANDBOX_DIR}
    /\ \E live \in SUBSET {scripts_yaml} :
           fs = (PathJoin(CONFIG_DIR, secrets_yaml) :> File(DataS, 0))
                @@ (PathJoin(BACKUP_DIR, backup_name(secrets_yaml, 0)) :> File(DataS, 0))
                @@ [p \in {PathJoin(CONFIG_DIR, f) : f \in live} |-> File(DataA, 0)]
    /\ clock = 0
    /\ env = [mode |-> "none"]
    /\ agent = [mode |-> "none"]
    /\ pc = "none"
    /\ batch = <<>>
    /\ results = <<>>
    /\ ret = NoRet
    /\ io = <<>>
    /\ fs0 = fs
    /\ dirs0 = dirs
    /\ call = NoCall
    /\ runs = 0

NextCM ==
    \/ CM_get_file_path
    \/ CM_read_file
    \/ CM_write_file
    \/ CM_create_backup
    \/ CM_restore_backup
    \/ Tick

SpecCM == InitCM /\ [][NextCM]_vars

\* ------------------------------------------- properties of ConfigManager
Allowed(self) == {self.allowed_files[i] : i \in DOMAIN self.allowed_files}

LivePath(self, filename) == <<self.config_dir, filename>>

BackupArea(self, f) == {p \in DOMAIN f : p[1] = self.backup_dir}

\* e is a completed copy of the live file p into the backup directory
IsBackupOf(self, e, p) == e.op = "copy" /\ e.ok /\ e.src = p /\ e.path[1] = self.backup_dir

\* The last call takes backups: restore_backup always, write_file when asked to
BackupsOn == call.op = "restore_backup" \/ (call.op = "write_file" /\ call.create_backup)

C6_DistinctBackupNames ==
    \A i \in DOMAIN io :
        (io[i].op = "copy" /\ io[i].ok /\ io[i].path[1] = cm.backup_dir) => ~io[i].existed

\* C7: after restore_backup(b) has returned for an existing backup b, the
\* live file holds the bytes that b held when restore_backup was called.
C7_RestoreYieldsBackupBytes ==
    (call.op = "restore_backup" /\ exists(fs0, call.backup_path) /\ ret.exc = "none")
        => fs[ret.val].data = fs0[call.backup_path].data

\* C8: restore_backup called over an existing live file either leaves that
\* file as it was or leaves its previous content in the backup area.
C8_RestoreReversible ==
    LET target == LivePath(cm, original_name(call.backup_path[2]))
    IN  (call.op = "restore_backup" /\ exists(fs0, target))
            => \/ fs[target] = fs0[target]
               \/ \E p \in BackupArea(cm, fs) : fs[p].data = fs0[target].data

\* C8 witness: a restore has returned and changed the content of the live file
C8_Witness ==
    /\ call.op = "restore_backup"
    /\ ret.exc = "none"
    /\ exists(fs0, ret.val)
    /\ fs[ret.val].data # fs0[ret.val].data

\* C9: restore_backup of a backup whose derived original name is not in the
\* allow-list raises PermissionError and changes no file and no directory.
C9_RestoreDenied ==
    (call.op = "restore_backup" /\ original_name(call.backup_path[2]) \notin Allowed(cm))
        => /\ ret.exc = "PermissionError"
           /\ fs = fs0
           /\ dirs = dirs0
           /\ io = <<>>

\* C9 witness: the denied restore of an existing backup of the existing secrets.yaml
C9_Witness ==
    /\ call.op = "restore_backup"
    /\ call.backup_path = PathJoin(cm.backup_dir, backup_name(secrets_yaml, 0))
    /\ exists(fs0, call.backup_path)
    /\ exists(fs0, LivePath(cm, secrets_yaml))
    /\ ret.exc = "PermissionError"

\* C10: get_file_path, read_file and write_file raise PermissionError for a
\* name that is not exactly in allowed_files, write_file then writes nothing
\* and backs nothing up; for a member they work on config_dir/filename.
C10_ExactAllowList ==
    call.op \in {"get_file_path", "read_file", "write_file"} =>
        LET path == <<cm.config_dir, call.filename>>
        IN  IF call.filename \notin Allowed(cm)
            THEN ret.exc = "PermissionError" /\ fs = fs0 /\ io = <<>>
            ELSE /\ ret.exc # "PermissionError"
                 /\ call.op = "get_file_path" => ret.val = path
                 /\ call.op = "read_file"
                        => ret.val = IF exists(fs0, path) THEN fs0[path].data ELSE <<>>
                 /\ (call.op = "write_file" /\ ret.exc = "none")
                        => ret.val = path /\ fs[path].data = call.content
                 /\ \A i \in DOMAIN io : io[i].op = "write" => io[i].path = path

\* C10 witness: write_file("Scripts.yaml") is denied while scripts.yaml is
\* allowed and live
C10_Witness ==
    /\ call.op = "write_file"
    /\ call.filename = Scripts_yaml
    /\ scripts_yaml \in Allowed(cm)
    /\ exists(fs0, LivePath(cm, scripts_yaml))
    /\ ret.exc = "PermissionError"

\* ------------------------------------------------------ YAMLHandler, AIAgent
\* YAMLHandler.write_file: creates the parent directory, then writes the text
yaml_write_file(w, filepath, content, now) ==
    write_text(mkdir(w, filepath[1]), filepath, content, now)

DEFAULT_ALLOWED == <<automations_yaml, scripts_yaml, scenes_yaml>>

RECURSIVE stripped_nonempty(_)
stripped_nonempty(parts) ==
    IF parts = <<>> THEN <<>>
    ELSE (IF strip(Head(parts)) # <<>> THEN <<strip(Head(parts))>> ELSE <<>>)
             \o stripped_nonempty(Tail(parts))

\* AIAgent._parse_allowed_files: the default list, or the comma-separated
\* ALLOWED_FILES with each name stripped and the empty ones dropped
_parse_allowed_files(e) ==
    IF e.ALLOWED_FILES = <<>> THEN DEFAULT_ALLOWED
    ELSE stripped_nonempty(split(e.ALLOWED_FILES, COMMA))

\* AIAgent.__init__: the fields read from the environment
AIAgent(e) ==
    [mode |-> e.AI_MODE,
     backup_enabled |-> (lower(e.BACKUP_ENABLED) = <<"true">>),
     sandbox_enabled |-> (lower(e.SANDBOX_ENABLED) = <<"true">>),
     sandbox_dir |-> e.SANDBOX_DIR,
     allowed_files |-> _parse_allowed_files(e),
     backup_dir |-> e.BACKUP_DIR]

\* dict: a sequence of <<key, value>> in insertion order; an assignment to a
\* key that is present keeps its place
dict_has(d, k) == \E i \in DOMAIN d : d[i][1] = k

dict_set(d, k, v) ==
    IF dict_has(d, k)
    THEN [i \in DOMAIN d |-> IF d[i][1] = k THEN <<k, v>> ELSE d[i]]
    ELSE Append(d, <<k, v>>)

\* One line of the loop of AIAgent._parse_response
parse_line(st, line) ==
    LET flushed == IF st.current_file # <<>> /\ st.current_content # <<>>
                   THEN dict_set(st.files, st.current_file, join(st.current_content, NL))
                   ELSE st.files
    IN  IF startswith(strip(line), <<FILE_MARKER>>)
        THEN [files |-> flushed, current_file |-> strip(replace(line, FILE_MARKER)),
              current_content |-> <<>>, in_yaml_block |-> TRUE]
        ELSE IF startswith(strip(line), <<FENCE, "yaml">>)
        THEN [st EXCEPT !.in_yaml_block = TRUE]
        ELSE IF strip(line) = <<FENCE>> /\ st.in_yaml_block
        THEN IF st.current_file # <<>> /\ st.current_content # <<>>
             THEN [files |-> flushed, current_file |-> <<>>, current_content |-> <<>>,
                   in_yaml_block |-> FALSE]
             ELSE [st EXCEPT !.in_yaml_block = FALSE]
        ELSE IF st.in_yaml_block /\ st.current_file # <<>>
        THEN [st EXCEPT !.current_content = Append(@, line)]
        ELSE st

RECURSIVE parse_lines(_, _)
parse_lines(st, lines) ==
    IF lines = <<>> THEN st ELSE parse_lines(parse_line(st, Head(lines)), Tail(lines))

\* The files dict of _parse_response before the allow-list filter
parse_files(response) ==
    LET st == parse_lines([files |-> <<>>, current_file |-> <<>>, current_content |-> <<>>,
                           in_yaml_block |-> FALSE], split(response, NL))
    IN  IF st.current_file # <<>> /\ st.current_content # <<>>
        THEN dict_set(st.files, st.current_file, join(st.current_content, NL))
        ELSE st.files

RECURSIVE filter_allowed(_, _)
filter_allowed(self, files) ==
    IF files = <<>> THEN <<>>
    ELSE (IF \E i \in DOMAIN self.allowed_files : self.allowed_files[i] = Head(files)[1]
          THEN <<Head(files)>> ELSE <<>>) \o filter_allowed(self, Tail(files))

\* AIAgent._parse_response
_parse_response(self, response) == filter_allowed(self, parse_files(response))

\* HAInterface.check_config as the agent sees it: an event of the log
check_config(w, valid) ==
    IF w.exc # "none" THEN w
    ELSE [w EXCEPT !.io = Append(@, [op |-> "check_config", path |-> NoPath, src |-> NoPath,
                                     existed |-> FALSE, old |-> <<>>, ok |-> valid])]

\* One iteration of the loop of AIAgent._apply_changes, for the file
\* <<filename, content>>: the world after it and the record appended to
\* results["files"] (<<>>: none)
apply_file(self, w, filename, content, confirm, valid, now) ==
    LET filepath == PathJoin(CONFIG_DIR, filename)
        ai_filepath == IF self.sandbox_enabled
                       THEN PathJoin(self.sandbox_dir, filename \o AI_YAML)
                       ELSE with_suffix(filepath, AI_YAML)
        backup_path == PathJoin(self.backup_dir, backup_name(filename, now))
        w_dry == yaml_write_file(IF self.sandbox_enabled THEN mkdir(w, self.sandbox_dir) ELSE w,
                                 ai_filepath, content, now)
        w_bak == IF self.backup_enabled /\ exists(w.fs, filepath)
                 THEN shutil_copy(mkdir(w, self.backup_dir), filepath, backup_path, now)
                 ELSE w
        w_app == check_config(yaml_write_file(w_bak, filepath, content, now), valid)
    IN  IF self.mode = "read_only"
        THEN Result(w, <<[file |-> filename, action |-> "displayed"]>>)
        ELSE IF self.mode = "dry_run"
        THEN Result(w_dry, <<[file |-> filename, action |-> "dry_run", path |-> ai_filepath]>>)
        ELSE IF self.mode = "apply"
        THEN IF ~confirm THEN Result(w, <<>>)
             ELSE Result(w_app, <<[file |-> filename, action |-> "applied"]>>)
        ELSE Result(w, <<>>)

\* ------------------------------------------------------- the agent process
MarkerLine(filename) == <<FILE_MARKER, SP>> \o filename
Block(filename, content) == <<MarkerLine(filename), <<FENCE, "yaml">>, content, <<FENCE>>>>

\* The generated texts the agent is run on
Response1 == join(<<<<"Here", SP, "you", SP, "are">>>> \o Block(automations_yaml, DataB)
                      \o Block(secrets_yaml, DataB), NL)
Response2 == join(Block(scripts_yaml, DataA) \o Block(automations_ai_yaml, DataB)
                      \o Block(automations_yaml, DataA), NL)
Response3 == join(<<<<"Nothing", SP, "to", SP, "change">>>>, NL)
Responses == {Response1, Response2, Response3}

\* The process environments the agent is started in
Env(mode, backup, sandbox, sandbox_dir, allowed) ==
    [AI_MODE |-> mode, BACKUP_ENABLED |-> backup, SANDBOX_ENABLED |-> sandbox,
     SANDBOX_DIR |-> sandbox_dir, ALLOWED_FILES |-> allowed, BACKUP_DIR |-> BACKUP_DIR]

Envs ==
    {Env("read_only", <<"true">>, <<"true">>, SANDBOX_DIR, <<>>),
     Env("dry_run", <<"true">>, <<"true">>, SANDBOX_DIR, <<>>),
     Env("dry_run", <<"true">>, <<"false">>, SANDBOX_DIR, <<>>),
     Env("dry_run", <<"true">>, <<"true">>, CONFIG_DIR, <<>>),
     Env("apply", <<"true">>, <<"true">>, SANDBOX_DIR, <<>>),
     Env("apply", <<"false">>, <<"true">>, SANDBOX_DIR, <<>>),
     Env("apply", <<"true">>, <<"true">>, SANDBOX_DIR,
         <<SP>> \o automations_yaml \o <<SP, COMMA>> \o secrets_yaml \o <<COMMA>>)}

AgentFrame == UNCHANGED <<clock, env, cm>>

\* main: AIAgent() is constructed, its ConfigManager creates the backup and
\* the sandbox directory; fs0 and dirs0 keep the file system the process found
Construct ==
    /\ pc = "start"
    /\ LET self == AIAgent(env)
           w == ConfigManager_mkdirs(World(fs, dirs, <<>>, 0, FALSE),
                    ConfigManager(CONFIG_DIR, self.backup_dir, self.sandbox_dir, self.allowed_files))
       IN  /\ agent' = self
           /\ dirs' = w.dirs
           /\ io' = w.io
    /\ fs0' = fs
    /\ dirs0' = dirs
    /\ pc' = "ready"
    /\ UNCHANGED <<fs, batch, results, ret, call, runs>>
    /\ AgentFrame

\* process_request that goes on with the text at hand when the chat call raises
ProcessRequest_uncaught ==
    /\ pc = "ready"
    /\ \E raised \in BOOLEAN, response \in Responses :
           /\ call' = [op |-> "process_request", response |-> IF raised THEN <<>> ELSE response,
                       raised |-> raised]
           /\ LET files_to_update == _parse_response(agent, response)
              IN  IF files_to_update = <<>>
                  THEN /\ ret' = [success |-> TRUE, files |-> <<>>]
                       /\ pc' = "done"
                       /\ UNCHANGED batch
                  ELSE /\ batch' = files_to_update
                       /\ pc' = "apply"
                       /\ UNCHANGED ret
    /\ results' = <<>>
    /\ UNCHANGED <<fs, dirs, agent, io, fs0, dirs0, runs>>
    /\ AgentFrame

\* process_request up to the call of _apply_changes: the chat call raises, or
\* its response is parsed; with no file to update it returns at once
ProcessRequest ==
    /\ pc = "ready"
    /\ \E raised \in BOOLEAN, response \in Responses :
           /\ call' = [op |-> "process_request", response |-> IF raised THEN <<>> ELSE response,
                       raised |-> raised]
           /\ IF raised
              THEN /\ ret' = [success |-> FALSE, error |-> "GenerationFailure"]
                   /\ pc' = "done"
                   /\ UNCHANGED batch
              ELSE LET files_to_update == _parse_response(agent, response)
                   IN  IF files_to_update = <<>>
                       THEN /\ ret' = [success |-> TRUE, files |-> <<>>]
                            /\ pc' = "done"
                            /\ UNCHANGED batch
                       ELSE /\ batch' = files_to_update
                            /\ pc' = "apply"
                            /\ UNCHANGED ret
    /\ results' = <<>>
    /\ UNCHANGED <<fs, dirs, agent, io, fs0, dirs0, runs>>
    /\ AgentFrame

\* One iteration of the loop of _apply_changes; an I/O error is not caught
\* anywhere and ends the process
ApplyFile ==
    /\ pc = "apply"
    /\ batch # <<>>
    /\ \E confirm \in (IF agent.mode = "apply" THEN BOOLEAN ELSE {TRUE}),
          valid \in (IF agent.mode = "apply" THEN BOOLEAN ELSE {TRUE}) :
         \E fail \in 0..Attempts(apply_file(agent, World(fs, dirs, io, 0, FALSE), Head(batch)[1],
                                            Head(batch)[2], confirm, valid, clock)) :
         \E torn \in (IF fail = 0 THEN {FALSE} ELSE BOOLEAN) :
           LET r == apply_file(agent, World(fs, dirs, io, fail, torn), Head(batch)[1], Head(batch)[2],
                               confirm, valid, clock)
           IN  /\ fs' = r.w.fs
               /\ dirs' = r.w.dirs
               /\ io' = r.w.io
               /\ IF r.w.exc # "none"
                  THEN pc' = "crashed" /\ UNCHANGED <<batch, results>>
                  ELSE /\ pc' = "apply"
                       /\ batch' = Tail(batch)
                       /\ results' = results \o r.val
    /\ UNCHANGED <<agent, ret, call, fs0, dirs0, runs>>
    /\ AgentFrame

\* _apply_changes returns results, process_request returns it
Return ==
    /\ pc = "apply"
    /\ batch = <<>>
    /\ ret' = [success |-> TRUE, files |-> results, mode |-> agent.mode]
    /\ pc' = "done"
    /\ UNCHANGED <<fs, dirs, agent, batch, results, io, call, fs0, dirs0, runs>>
    /\ AgentFrame

\* The process has ended; the command is run again
Rerun ==
    /\ pc \in {"done", "crashed"}
    /\ runs < MaxRuns
    /\ runs' = runs + 1
    /\ pc' = "start"
    /\ batch' = <<>>
    /\ results' = <<>>
    /\ ret' = NoRet
    /\ call' = NoCall
    /\ UNCHANGED <<fs, dirs, agent, io, fs0, dirs0>>
    /\ AgentFrame

InitAgent ==
    /\ env \in Envs
    /\ dirs \in {{CONFIG_DIR}, {CONFIG_DIR, BACKUP_DIR, SANDBOX_DIR}}
    /\ \E live \in SUBSET {automations_yaml} :
           fs = (PathJoin(CONFIG_DIR, secrets_yaml) :> File(DataS, 0))
                @@ [p \in {PathJoin(CONFIG_DIR, f) : f \in live} |-> File(DataA, 0)]
    /\ clock = 0
    /\ agent = [mode |-> "none"]
    /\ pc = "start"
    /\ batch = <<>>
    /\ results = <<>>
    /\ ret = NoRet
    /\ io = <<>>
    /\ fs0 = fs
    /\ dirs0 = dirs
    /\ cm = [config_dir |-> CONFIG_DIR]
    /\ call = NoCall
    /\ runs = 1

NextAgent ==
    \/ Construct
    \/ ProcessRequest
    \/ ApplyFile
    \/ Return
    \/ Rerun
    \/ Tick

SpecAgent == InitAgent /\ [][NextAgent]_vars

\* ------------------------------------------------- properties of the agent
\* The file names opened by a marker of the response of the current request
ResponseNames ==
    IF call.op = "process_request"
    THEN {parse_files(call.response)[i][1] : i \in DOMAIN parse_files(call.response)}
    ELSE {}

AgentAllowed == {agent.allowed_files[i] : i \in DOMAIN agent.allowed_files}

InCycle == pc \in {"apply", "done", "crashed"} /\ call.op = "process_request"

\* The reads and writes of files in the log (mkdir and check_config left out)
FileEvents == {i \in DOMAIN io : io[i].op \in {"write", "copy"}}

\* C1: in dry_run and apply mode, for a name of the response that is not in
\* allowed_files no event of the cycle writes its live file, stages it or
\* copies it to a backup, and no result record names it.
C1_UnlistedNeverTouched ==
    (InCycle /\ agent.mode \in {"dry_run", "apply"}) =>
        \A f \in ResponseNames \ AgentAllowed :
            /\ \A i \in FileEvents :
                   /\ io[i].path # PathJoin(CONFIG_DIR, f)
                   /\ io[i].src # PathJoin(CONFIG_DIR, f)
                   /\ io[i].path # PathJoin(agent.sandbox_dir, f \o AI_YAML)
                   /\ io[i].path # with_suffix(PathJoin(CONFIG_DIR, f), AI_YAML)
            /\ \A k \in DOMAIN results : results[k].file # f

\* C2: in dry_run mode no event of the cycle writes a path in the live
\* configuration root.
C2_DryRunNeverWritesLiveRoot ==
    (InCycle /\ agent.mode = "dry_run") =>
        \A i \in FileEvents : io[i].path[1] # CONFIG_DIR

\* C3: a process in read_only mode leaves files and directories as it found
\* them, and a cycle that returns has recorded every file of the batch as
\* displayed.
C3_ReadOnlyNoMutation ==
    (pc # "start" /\ agent.mode = "read_only") =>
        /\ fs = fs0
        /\ dirs = dirs0
        /\ (pc = "done" /\ call.op = "process_request" /\ ~call.raised) =>
               LET files == _parse_response(agent, call.response)
               IN  /\ Len(ret.files) = Len(files)
                   /\ \A k \in DOMAIN files :
                          ret.files[k] = [file |-> files[k][1], action |-> "displayed"]

\* The content the current response gives to the file name f
ResponseContent(f) ==
    LET files == _parse_response(agent, call.response)
    IN  files[CHOOSE k \in DOMAIN files : files[k][1] = f][2]

\* C5: in apply mode with backups enabled, every completed write over an
\* existing live file comes right after one completed copy of that file to a
\* backup name that did not exist, the backup holds the content that was
\* live, and the live file holds the new content.
C5_ApplyOneNewBackupThenWrite ==
    (InCycle /\ agent.mode = "apply" /\ agent.backup_enabled) =>
        \A i \in FileEvents :
            (io[i].op = "write" /\ io[i].ok /\ io[i].path[1] = CONFIG_DIR /\ io[i].existed) =>
                /\ i > 1
                /\ io[i - 1].op = "copy"
                /\ io[i - 1].ok
                /\ io[i - 1].src = io[i].path
                /\ io[i - 1].path[1] = agent.backup_dir
                /\ ~io[i - 1].existed
                /\ fs[io[i - 1].path].data = io[i].old
                /\ fs[io[i].path].data = ResponseContent(io[i].path[2])

\* In apply mode with backups enabled every write over an existing live file
\* comes right after a completed copy of it to the backup directory, and a
\* backup is copied only from an existing live file that is written next.
AgentBackupIffOverwriteWhenEnabled ==
    (InCycle /\ agent.mode = "apply") =>
        /\ \A i \in FileEvents :
               (io[i].op = "write" /\ io[i].path[1] = CONFIG_DIR /\ io[i].existed
                   /\ agent.backup_enabled) =>
                   /\ i > 1
                   /\ io[i - 1].op = "copy" /\ io[i - 1].ok /\ io[i - 1].src = io[i].path
                   /\ io[i - 1].path[1] = agent.backup_dir
        /\ \A j \in FileEvents :
               io[j].op = "copy" =>
                   /\ agent.backup_enabled
                   /\ io[j].src[1] = CONFIG_DIR
                   /\ io[j].ok => (j < Len(io) /\ io[j + 1].op = "write"
                                       /\ io[j + 1].path = io[j].src)

\* ------------------------------------------- ConfigManager: list and prune
scripts_yaml_old == <<"scripts", DOT, "yaml", DOT, "old">>

\* days * 86400
SECONDS_PER_DAY == 86400

MaxDays == 2

\* The seconds the clock can show
ClockValues == {d * SECONDS_PER_DAY + t : d \in 0..MaxDays, t \in 0..MaxClock}

\* str.endswith(p)
endswith(s, p) == Len(s) >= Len(p) /\ SubSeq(s, Len(s) - Len(p) + 1, Len(s)) = p

\* The order of str on the atoms of file names: "." before the digits of a
\* timestamp, these before upper case, upper case before lower case; the
\* timestamps have one width, so they compare as their seconds do
Letters == <<"Scripts", "automations", "bak", "old", "scripts", "secrets", "yaml">>

ord(atom) ==
    IF atom = DOT THEN 0
    ELSE IF \E t \in ClockValues : strftime(t) = atom
    THEN 1 + (CHOOSE t \in ClockValues : strftime(t) = atom)
    ELSE 1 + (MaxDays + 1) * SECONDS_PER_DAY + (CHOOSE i \in DOMAIN Letters : Letters[i] = atom)

\* str.__lt__: the first differing atom decides, a proper prefix is smaller
RECURSIVE str_lt(_, _)
str_lt(a, b) ==
    IF b = <<>> THEN FALSE
    ELSE IF a = <<>> THEN TRUE
    ELSE IF Head(a) # Head(b) THEN ord(Head(a)) < ord(Head(b))
    ELSE str_lt(Tail(a), Tail(b))

\* Path.__lt__ of two paths of one directory
path_lt(p, q) == str_lt(p[2], q[2])

\* sorted(paths, reverse=True)
RECURSIVE sorted_reverse(_)
sorted_reverse(paths) ==
    IF paths = {} THEN <<>>
    ELSE LET m == CHOOSE p \in paths : \A q \in paths \ {p} : path_lt(q, p)
         IN  <<m>> \o sorted_reverse(paths \ {m})

\* fnmatch of a name against "*.bak" (no filename) or f"{filename}.*.bak":
\* the star matches any run of characters, dots and the empty run included
fnmatch(name, filename) ==
    IF filename = None
    THEN endswith(name, <<DOT, "bak">>)
    ELSE /\ startswith(name, filename \o <<DOT>>)
         /\ endswith(name, <<DOT, "bak">>)
         /\ Len(name) >= Len(filename) + 3

\* self.backup_dir.glob(pattern)
glob(self, w, filename) ==
    {p \in DOMAIN w.fs : p[1] = self.backup_dir /\ fnmatch(p[2], filename)}

list_backups(self, w, filename) ==
    Result(w, sorted_reverse(glob(self, w, filename)))

\* clean_old_backups: unlinks every *.bak whose st_mtime precedes the cutoff
\* and returns their number (every unlink is taken to succeed)
clean_old_backups(self, w, days, now) ==
    LET cutoff == now - (days * SECONDS_PER_DAY)
        old == {p \in glob(self, w, None) : w.fs[p].mtime < cutoff}
    IN  Result([w EXCEPT !.fs = [p \in DOMAIN w.fs \ old |-> w.fs[p]]], Cardinality(old))

\* The file names the backup store is driven with
StoreNames == {scripts_yaml, automations_yaml, scripts_yaml_old}

Store_create_backup ==
    \E filename \in StoreNames :
        /\ Returns(create_backup(cm, World(fs, dirs, <<>>, 0, FALSE), filename, clock),
                   [op |-> "create_backup", filename |-> filename, now |-> clock])
        /\ CMFrame

\* The live scripts.yaml is edited: its st_mtime becomes now
Store_write_file ==
    /\ Returns(write_file(cm, World(fs, dirs, <<>>, 0, FALSE), scripts_yaml, DataB, FALSE, clock),
               [op |-> "write_file", filename |-> scripts_yaml, content |-> DataB,
                create_backup |-> FALSE, now |-> clock])
    /\ CMFrame

Store_list_backups ==
    \E filename \in {None} \cup StoreNames :
        /\ Returns(list_backups(cm, World(fs, dirs, <<>>, 0, FALSE), filename),
                   [op |-> "list_backups", filename |-> filename, now |-> clock])
        /\ CMFrame

Store_clean_old_backups ==
    \E days \in 0..MaxDays :
        /\ Returns(clean_old_backups(cm, World(fs, dirs, <<>>, 0, FALSE), days, clock),
                   [op |-> "clean_old_backups", days |-> days, now |-> clock])
        /\ CMFrame

\* A day passes
NextDay ==
    /\ clock < MaxDays * SECONDS_PER_DAY
    /\ clock' = clock + SECONDS_PER_DAY
    /\ UNCHANGED <<fs, dirs, env, agent, pc, batch, results, ret, io, fs0, dirs0, cm, call, runs>>

\* A ConfigManager over a configuration root that holds scripts.yaml,
\* automations.yaml and scripts.yaml.old, all last modified in second 0, and
\* an empty backup directory
InitStore ==
    /\ cm = ConfigManager(CONFIG_DIR, BACKUP_DIR, SANDBOX_DIR,
                          <<scripts_yaml, automations_yaml, scripts_yaml_old>>)
    /\ dirs = {CONFIG_DIR, BACKUP_DIR, SANDBOX_DIR}
    /\ fs = [p \in {PathJoin(CONFIG_DIR, f) : f \in StoreNames} |-> File(DataA, 0)]
    /\ clock = 0
    /\ env = [mode |-> "none"]
    /\ agent = [mode |-> "none"]
    /\ pc = "none"
    /\ batch = <<>>
    /\ results = <<>>
    /\ ret = NoRet
    /\ io = <<>>
    /\ fs0 = fs
    /\ dirs0 = dirs
    /\ call = NoCall
    /\ runs = 0

NextStore ==
    \/ Store_create_backup
    \/ Store_write_file
    \/ Store_list_backups
    \/ Store_clean_old_backups
    \/ NextDay

SpecStore == InitStore /\ [][NextStore]_vars

\* ------------------------------------------- properties of list and prune
\* The second a backup was created in: the timestamp of its name
created(path) == CHOOSE t \in ClockValues : strftime(t) = path[2][Len(path[2]) - 2]

\* C11: list_backups returns every backup (with a filename: exactly the
\* backups of that file) once, a backup created later before one created
\* earlier.
C11_ListNewestFirst ==
    call.op = "list_backups" =>
        LET wanted == {p \in BackupArea(cm, fs0) :
                           call.filename = None \/ original_name(p[2]) = call.filename}
        IN  /\ {ret.val[i] : i \in DOMAIN ret.val} = wanted
            /\ Len(ret.val) = Cardinality(wanted)
            /\ \A i, j \in DOMAIN ret.val : i < j => created(ret.val[i]) >= created(ret.val[j])

\* list_backups(filename) returns the backups of that one file, newest first
ListOfOneFileNewestFirst ==
    (call.op = "list_backups" /\ call.filename # None) =>
        /\ \A p \in BackupArea(cm, fs0) :
               original_name(p[2]) = call.filename => \E i \in DOMAIN ret.val : ret.val[i] = p
        /\ \A i, j \in DOMAIN ret.val :
               (i < j /\ original_name(ret.val[i][2]) = original_name(ret.val[j][2]))
                   => created(ret.val[i]) > created(ret.val[j])

\* C12: clean_old_backups deletes exactly the backups created before the
\* cutoff, returns their number and leaves every live file as it was.
C12_PruneByCreationTime ==
    call.op = "clean_old_backups" =>
        LET cutoff == call.now - (call.days * SECONDS_PER_DAY)
            old == {p \in BackupArea(cm, fs0) : created(p) < cutoff}
        IN  /\ DOMAIN fs = DOMAIN fs0 \ old
            /\ ret.val = Cardinality(old)
            /\ \A p \in DOMAIN fs : fs[p] = fs0[p]

\* clean_old_backups deletes backups only, returns the number it deleted and
\* never deletes a backup whose st_mtime is at or after the cutoff
PruneByMtime ==
    call.op = "clean_old_backups" =>
        LET cutoff == call.now - (call.days * SECONDS_PER_DAY)
        IN  /\ DOMAIN fs \subseteq DOMAIN fs0
            /\ \A p \in DOMAIN fs0 \ DOMAIN fs : p[1] = cm.backup_dir /\ fs0[p].mtime < cutoff
            /\ \A p \in DOMAIN fs : fs[p] = fs0[p] /\ (p[1] = cm.backup_dir => fs0[p].mtime >= cutoff)
            /\ ret.val = Cardinality(DOMAIN fs0 \ DOMAIN fs)

\* ------------------------------------------- properties of the apply cycle
\* The file an event of the log is about: the file written, the file copied
EventFile(e) == IF e.op = "copy" THEN e.src[2] ELSE e.path[2]

\* The batch of the current request: the files _apply_changes is called with
Batch == _parse_response(agent, call.response)

\* A cycle of the given mode has returned from _apply_changes
CycleDone(mode) ==
    /\ pc = "done"
    /\ call.op = "process_request"
    /\ ~call.raised
    /\ agent.mode = mode

\* C13: in apply mode a failed backup copy or write does not end the cycle:
\* it is recorded for its file as failed, and the cycle goes on.
C13_FailureRecordedBatchContinues ==
    (InCycle /\ agent.mode = "apply") =>
        /\ pc # "crashed"
        /\ \A i \in FileEvents :
               ~io[i].ok => \E k \in DOMAIN results :
                                /\ results[k].file = EventFile(io[i])
                                /\ results[k].action = "failed"

\* C14: in apply mode a cycle that returns has recorded every name of the
\* response that is not in allowed_files as rejected, has neither backed it
\* up nor written it, and has recorded the allowed names as well.
C14_RejectedRecorded ==
    CycleDone("apply") =>
        /\ \A f \in ResponseNames \ AgentAllowed :
               /\ \E k \in DOMAIN ret.files :
                      ret.files[k].file = f /\ ret.files[k].action = "rejected"
               /\ \A i \in FileEvents : EventFile(io[i]) # f
        /\ \A f \in ResponseNames \cap AgentAllowed :
               \E k \in DOMAIN ret.files : ret.files[k].file = f

\* In apply mode a name of the response that is not in allowed_files is
\* neither backed up nor written, and the cycle goes on with the other files
RejectedUntouched ==
    (InCycle /\ agent.mode = "apply") =>
        /\ \A f \in ResponseNames \ AgentAllowed : \A i \in FileEvents : EventFile(io[i]) # f
        /\ \A k \in DOMAIN results : results[k].file \in AgentAllowed

\* C15: in apply mode a cycle that returns holds exactly one record per file
\* of the batch, in the order of the batch; a file recorded as skipped has
\* been neither backed up nor written.
C15_DeclinedSkippedRecorded ==
    CycleDone("apply") =>
        /\ Len(ret.files) = Len(Batch)
        /\ \A k \in DOMAIN ret.files :
               /\ ret.files[k].file = Batch[k][1]
               /\ ret.files[k].action = "skipped"
                      => \A i \in FileEvents : EventFile(io[i]) # Batch[k][1]

\* In apply mode a file of the batch with no record (its confirmation was
\* declined) has been neither backed up nor written
DeclinedUntouched ==
    CycleDone("apply") =>
        \A k \in DOMAIN Batch :
            (\A j \in DOMAIN ret.files : ret.files[j].file # Batch[k][1])
                => \A i \in FileEvents : EventFile(io[i]) # Batch[k][1]

\* C16: in apply mode no backup and no write follows a call of check_config,
\* and what process_request returns holds the outcome of the check.
C16_ValidateAfterBatch ==
    (InCycle /\ agent.mode = "apply") =>
        /\ \A i, j \in DOMAIN io :
               (i < j /\ io[i].op = "check_config") => io[j].op \notin {"write", "copy"}
        /\ (pc = "done" /\ \E i \in DOMAIN io : io[i].op = "check_config")
               => "config_valid" \in DOMAIN ret

\* C17: when the chat call raises, process_request returns a failure and the
\* request has parsed no file and attempted no staging, backup or write.
C17_GenerationFailureFatal ==
    (call.op = "process_request" /\ call.raised) =>
        /\ pc = "done"
        /\ ret.success = FALSE
        /\ batch = <<>>
        /\ results = <<>>
        /\ FileEvents = {}
        /\ fs = fs0

\* C17 witness: the chat call has raised in apply mode over an existing
\* automations.yaml
C17_Witness ==
    /\ call.op = "process_request"
    /\ call.raised
    /\ agent.mode = "apply"
    /\ pc = "done"
    /\ exists(fs, PathJoin(CONFIG_DIR, automations_yaml))

\* C18: a dry_run cycle that returns has staged every file of the batch at
\* sandbox_dir/<filename>.ai.yaml with its content, has recorded that path,
\* and has staged no two files at one path.
C18_OneStagedFilePerName ==
    CycleDone("dry_run") =>
        /\ Len(ret.files) = Len(Batch)
        /\ \A k \in DOMAIN Batch :
               LET staged == PathJoin(agent.sandbox_dir, Batch[k][1] \o AI_YAML)
               IN  /\ exists(fs, staged)
                   /\ fs[staged].data = Batch[k][2]
                   /\ ret.files[k].path = staged
        /\ \A j, k \in DOMAIN ret.files : j # k => ret.files[j].path # ret.files[k].path

\* With the sandbox enabled a dry_run cycle that returns has staged every
\* file of the batch at sandbox_dir/<filename>.ai.yaml
StagedInSandboxWhenEnabled ==
    (CycleDone("dry_run") /\ agent.sandbox_enabled) => C18_OneStagedFilePerName

\* ------------------------------------------------------ the response parsers
MaxLines == 5

\* str.split(): the runs of characters between whitespace
RECURSIVE split_whitespace(_)
split_whitespace(s) ==
    LET t == lstrip(s)
    IN  IF t = <<>> THEN <<>>
        ELSE IF \A i \in 1..Len(t) : t[i] \notin {SP, NL} THEN <<t>>
        ELSE LET i == CHOOSE j \in 1..Len(t) :
                          t[j] \in {SP, NL} /\ \A k \in 1..(j - 1) : t[k] \notin {SP, NL}
             IN  <<SubSeq(t, 1, i - 1)>> \o split_whitespace(SubSeq(t, i + 1, Len(t)))

\* One line of the loop of BaseAgent.extract_yaml_from_response; [0] of an
\* empty split raises IndexError
extract_line(st, line) ==
    LET flushed == IF st.current_file # <<>> /\ st.current_content # <<>>
                   THEN dict_set(st.files, st.current_file, join(st.current_content, NL))
                   ELSE st.files
        tokens == split_whitespace(strip(replace(line, FILE_MARKER)))
    IN  IF st.exc # "none" THEN st
        ELSE IF startswith(strip(line), <<FILE_MARKER>>)
        THEN IF tokens = <<>>
             THEN [st EXCEPT !.files = flushed, !.exc = "IndexError"]
             ELSE [st EXCEPT !.files = flushed, !.current_file = tokens[1],
                             !.current_content = <<>>, !.in_yaml = TRUE]
        ELSE IF startswith(strip(line), <<FENCE, "yaml">>)
        THEN [st EXCEPT !.in_yaml = TRUE]
        ELSE IF strip(line) = <<FENCE>> /\ st.in_yaml
        THEN [st EXCEPT !.files = flushed, !.current_file = <<>>, !.current_content = <<>>,
                        !.in_yaml = FALSE]
        ELSE IF st.in_yaml
        THEN [st EXCEPT !.current_content = Append(@, line)]
        ELSE st

RECURSIVE extract_lines(_, _)
extract_lines(st, lines) ==
    IF lines = <<>> THEN st ELSE extract_lines(extract_line(st, Head(lines)), Tail(lines))

\* BaseAgent.extract_yaml_from_response: the files dict, or the exception
extract_yaml_from_response(response) ==
    LET st == extract_lines([files |-> <<>>, current_file |-> <<>>, current_content |-> <<>>,
                             in_yaml |-> FALSE, exc |-> "none"], split(response, NL))
    IN  IF st.exc # "none" THEN [exc |-> st.exc, val |-> None]
        ELSE IF st.current_file # <<>> /\ st.current_content # <<>>
        THEN [exc |-> "none",
              val |-> dict_set(st.files, st.current_file, join(st.current_content, NL))]
        ELSE [exc |-> "none", val |-> st.files]

\* The lines the texts given to the parsers are made of: marker lines (two
\* allowed names, a name not allowed, a name followed by a remark, no name),
\* fences (yaml, bare, another tag) and content (plain, indented, blank)
MarkerLines ==
    {MarkerLine(automations_yaml), MarkerLine(scripts_yaml), MarkerLine(secrets_yaml),
     MarkerLine(scripts_yaml) \o <<SP, "new">>, <<FILE_MARKER>>}

FenceLines == {<<FENCE, "yaml">>, <<FENCE>>, <<FENCE, "json">>}

ContentLines == {<<"x">>, <<SP, "y">>, <<>>}

TextLines == MarkerLines \cup FenceLines \cup ContentLines

Texts == UNION {[1..n -> TextLines] : n \in 1..MaxLines}

\* AIAgent._parse_response is applied to the text
Agent_parse_response ==
    /\ call.op = "input"
    /\ call' = [op |-> "_parse_response", response |-> call.response]
    /\ ret' = [exc |-> "none", val |-> _parse_response(agent, call.response)]
    /\ UNCHANGED <<fs, dirs, clock, env, agent, pc, batch, results, io, fs0, dirs0, cm, runs>>

\* BaseAgent.extract_yaml_from_response is applied to the text
Base_extract_yaml_from_response ==
    /\ call.op = "input"
    /\ call' = [op |-> "extract_yaml_from_response", response |-> call.response]
    /\ ret' = extract_yaml_from_response(call.response)
    /\ UNCHANGED <<fs, dirs, clock, env, agent, pc, batch, results, io, fs0, dirs0, cm, runs>>

\* An agent with the default allow-list and a text for the parsers
InitParse ==
    /\ env = Env("dry_run", <<"true">>, <<"true">>, SANDBOX_DIR, <<>>)
    /\ agent = AIAgent(env)
    /\ \E lines \in Texts : call = [op |-> "input", response |-> join(lines, NL)]
    /\ ret = NoRet
    /\ fs = <<>>
    /\ dirs = {CONFIG_DIR}
    /\ clock = 0
    /\ pc = "none"
    /\ batch = <<>>
    /\ results = <<>>
    /\ io = <<>>
    /\ fs0 = fs
    /\ dirs0 = dirs
    /\ cm = [config_dir |-> CONFIG_DIR]
    /\ runs = 0

NextParse ==
    \/ Agent_parse_response
    \/ Base_extract_yaml_from_response

SpecParse == InitParse /\ [][NextParse]_vars

\* ------------------------------------------------ properties of the parsers
\* The lines of the text the parser was given
Lines == split(call.response, NL)

IsMarker(line) == startswith(strip(line), <<FILE_MARKER>>)

IsFence(line) == strip(line) # <<>> /\ Head(strip(line)) = FENCE

\* The <name> of a marker line "# FILE: <name>"
MarkerName(line) == strip(replace(line, FILE_MARKER))

Parsed == call.op \in {"_parse_response", "extract_yaml_from_response"}

\* The text is a marker line with a one-word name, an opening fence, content
\* lines up to line n - 1, the closing fence in line n, and at most a final
\* newline
IsMarkedBlock(lines, n) ==
    /\ n \in 3..Len(lines)
    /\ IsMarker(lines[1])
    /\ Len(split_whitespace(MarkerName(lines[1]))) = 1
    /\ IsFence(lines[2])
    /\ lines[n] = <<FENCE>>
    /\ \A i \in 3..(n - 1) : ~IsMarker(lines[i]) /\ ~IsFence(lines[i])
    /\ n = Len(lines) \/ (n = Len(lines) - 1 /\ lines[Len(lines)] = <<>>)

\* C19: a marker line followed by one fenced block parses to exactly one
\* entry, for the marker's name, holding the lines between the fences joined
\* by newlines.
C19_MarkedBlockParsesToContent ==
    Parsed =>
        \A n \in DOMAIN Lines :
            IsMarkedBlock(Lines, n) =>
                /\ ret.exc = "none"
                /\ ret.val = <<<<MarkerName(Lines[1]), join(SubSeq(Lines, 3, n - 1), NL)>>>>

\* The same for a block opened by a yaml fence that holds at least one line
\* and whose name is in the allow-list (the shape of Scenario A)
YamlBlockParsesToContent ==
    Parsed =>
        \A n \in DOMAIN Lines :
            (/\ IsMarkedBlock(Lines, n)
             /\ n > 3
             /\ strip(Lines[2]) = <<FENCE, "yaml">>
             /\ MarkerName(Lines[1]) \in AgentAllowed) =>
                /\ ret.exc = "none"
                /\ ret.val = <<<<MarkerName(Lines[1]), join(SubSeq(Lines, 3, n - 1), NL)>>>>

\* The line of the first marker of the name f
FirstMarker(lines, f) ==
    CHOOSE i \in DOMAIN lines :
        /\ IsMarker(lines[i]) /\ MarkerName(lines[i]) = f
        /\ \A k \in 1..(i - 1) : ~(IsMarker(lines[k]) /\ MarkerName(lines[k]) = f)

\* C20: the entries of the dict _parse_response returns are in the order of
\* the first markers of their names in the text.
C20_OrderOfFirstMarker ==
    call.op = "_parse_response" =>
        \A i, j \in DOMAIN ret.val :
            i < j => FirstMarker(Lines, ret.val[i][1]) < FirstMarker(Lines, ret.val[j][1])

\* Every name of the dict has a marker in the text, and no name is there twice
EntriesHaveMarkers ==
    call.op = "_parse_response" =>
        /\ \A i \in DOMAIN ret.val :
               \E k \in DOMAIN Lines : IsMarker(Lines[k]) /\ MarkerName(Lines[k]) = ret.val[i][1]
        /\ \A i, j \in DOMAIN ret.val : i # j => ret.val[i][1] # ret.val[j][1]

\* A marker line whose name is one word
OneToken(line) == Len(split_whitespace(MarkerName(line))) = 1

\* A line that is neither a marker nor a fence
IsContent(line) == ~IsMarker(line) /\ ~IsFence(line)

\* The names of the dict the parser returned, and the content it gives a name
ResultNames == {ret.val[k][1] : k \in DOMAIN ret.val}

Entry(f) == ret.val[CHOOSE k \in DOMAIN ret.val : ret.val[k][1] = f][2]

\* C21: a parser that returns has an entry for every one-word name whose
\* marker line is followed by a content line, whether or not the name is in
\* the allow-list.
C21_NoInternalFilter ==
    (Parsed /\ ret.exc = "none") =>
        \A i \in 1..(Len(Lines) - 1) :
            (IsMarker(Lines[i]) /\ OneToken(Lines[i]) /\ IsContent(Lines[i + 1]))
                => MarkerName(Lines[i]) \in ResultNames

\* The same for BaseAgent.extract_yaml_from_response alone
BaseNeverFilters ==
    (call.op = "extract_yaml_from_response" /\ ret.exc = "none") =>
        \A i \in 1..(Len(Lines) - 1) :
            (IsMarker(Lines[i]) /\ OneToken(Lines[i]) /\ IsContent(Lines[i + 1]))
                => MarkerName(Lines[i]) \in ResultNames

\* The text is a marker line with a one-word name, an opening fence, content
\* lines up to line n - 1, the closing fence in line n, and content lines
\* after it
IsFencedCapture(lines, n) ==
    /\ n \in 3..Len(lines)
    /\ IsMarker(lines[1])
    /\ OneToken(lines[1])
    /\ IsFence(lines[2])
    /\ lines[n] = <<FENCE>>
    /\ \A i \in (3..(n - 1)) \cup ((n + 1)..Len(lines)) : IsContent(lines[i])

\* C24: after a marker the lines (one at least) between an opening fence, with
\* any tag or none, and the next closing fence are the entry of the marker's name, and
\* the lines after the closing fence are not captured; a text without a
\* marker parses to the empty dict whatever fences it holds.
C24_FenceToggles ==
    (Parsed /\ ret.exc = "none") =>
        /\ \A n \in DOMAIN Lines :
               (IsFencedCapture(Lines, n) /\ n > 3 /\ MarkerName(Lines[1]) \in AgentAllowed)
                   => ret.val = <<<<MarkerName(Lines[1]), join(SubSeq(Lines, 3, n - 1), NL)>>>>
        /\ (\A i \in DOMAIN Lines : ~IsMarker(Lines[i])) => ret.val = <<>>

\* The same where the opening fence is a yaml fence and the block holds a line
YamlFenceToggles ==
    (Parsed /\ ret.exc = "none") =>
        /\ \A n \in DOMAIN Lines :
               (/\ IsFencedCapture(Lines, n)
                /\ n > 3
                /\ strip(Lines[2]) = <<FENCE, "yaml">>
                /\ MarkerName(Lines[1]) \in AgentAllowed)
                   => ret.val = <<<<MarkerName(Lines[1]), join(SubSeq(Lines, 3, n - 1), NL)>>>>
        /\ (\A i \in DOMAIN Lines : ~IsMarker(Lines[i])) => ret.val = <<>>

\* The first word after the marker of a marker line
FirstToken(line) == split_whitespace(MarkerName(line))[1]

\* The line is a marker line whose first word is the name f
Reopens(line, f) == IsMarker(line) /\ MarkerName(line) # <<>> /\ FirstToken(line) = f

\* C25: every name of the result is one word; a marker line whose first word
\* is an allowed name and that is followed by a content line gives that name
\* an entry; and the content lines between a marker and the next marker are
\* the entry of the first marker's name when that name is not opened again.
C25_MarkerFirstToken ==
    (Parsed /\ ret.exc = "none") =>
        /\ \A f \in ResultNames : Len(split_whitespace(f)) = 1
        /\ \A i \in 1..(Len(Lines) - 1) :
               (/\ IsMarker(Lines[i])
                /\ MarkerName(Lines[i]) # <<>>
                /\ FirstToken(Lines[i]) \in AgentAllowed
                /\ IsContent(Lines[i + 1]))
                   => FirstToken(Lines[i]) \in ResultNames
        /\ \A i, j \in DOMAIN Lines :
               (/\ i + 1 < j
                /\ IsMarker(Lines[i])
                /\ OneToken(Lines[i])
                /\ MarkerName(Lines[i]) \in AgentAllowed
                /\ IsMarker(Lines[j])
                /\ \A k \in (i + 1)..(j - 1) : IsContent(Lines[k])
                /\ \A k \in j..Len(Lines) : ~Reopens(Lines[k], MarkerName(Lines[i])))
                   => /\ MarkerName(Lines[i]) \in ResultNames
                      /\ Entry(MarkerName(Lines[i])) = join(SubSeq(Lines, i + 1, j - 1), NL)

\* The flush before the switch alone: the third conjunct of C25
FlushBeforeSwitch ==
    (Parsed /\ ret.exc = "none") =>
        \A i, j \in DOMAIN Lines :
            (/\ i + 1 < j
             /\ IsMarker(Lines[i])
             /\ OneToken(Lines[i])
             /\ MarkerName(Lines[i]) \in AgentAllowed
             /\ IsMarker(Lines[j])
             /\ \A k \in (i + 1)..(j - 1) : IsContent(Lines[k])
             /\ \A k \in j..Len(Lines) : ~Reopens(Lines[k], MarkerName(Lines[i])))
                => /\ MarkerName(Lines[i]) \in ResultNames
                   /\ Entry(MarkerName(Lines[i])) = join(SubSeq(Lines, i + 1, j - 1), NL)

\* After the marker in line i come, up to the end of the text, an opening
\* fence or none and then the content lines from line c on
OpenToEnd(lines, i, c) ==
    /\ IsMarker(lines[i])
    /\ OneToken(lines[i])
    /\ c \in {i + 1, i + 2}
    /\ c <= Len(lines)
    /\ c = i + 2 => IsFence(lines[i + 1])
    /\ \A k \in c..Len(lines) : IsContent(lines[k])

\* C26: a marker followed to the end of the text by content lines, with or
\* without an opening fence before them and with no closing fence, gives its
\* name the entry holding those lines.
C26_EndOfInputFlush ==
    (Parsed /\ ret.exc = "none") =>
        \A i, c \in DOMAIN Lines :
            OpenToEnd(Lines, i, c) =>
                /\ MarkerName(Lines[i]) \in ResultNames
                /\ Entry(MarkerName(Lines[i])) = join(SubSeq(Lines, c, Len(Lines)), NL)

\* The same for an allowed name and a yaml fence or none
AllowedEndOfInputFlush ==
    (Parsed /\ ret.exc = "none") =>
        \A i, c \in DOMAIN Lines :
            (/\ OpenToEnd(Lines, i, c)
             /\ MarkerName(Lines[i]) \in AgentAllowed
             /\ c = i + 2 => strip(Lines[i + 1]) = <<FENCE, "yaml">>) =>
                /\ MarkerName(Lines[i]) \in ResultNames
                /\ Entry(MarkerName(Lines[i])) = join(SubSeq(Lines, c, Len(Lines)), NL)

\* Line i holds the last marker of its name, that name has an earlier marker,
\* and the content lines after line i end before line j: a marker, a closing
\* fence, or the end of the text
LastReopening(lines, i, j) ==
    /\ IsMarker(lines[i])
    /\ \E k \in 1..(i - 1) : IsMarker(lines[k]) /\ MarkerName(lines[k]) = MarkerName(lines[i])
    /\ \A k \in (i + 1)..Len(lines) :
           IsMarker(lines[k]) => MarkerName(lines[k]) # MarkerName(lines[i])
    /\ j \in (i + 1)..(Len(lines) + 1)
    /\ \A k \in (i + 1)..(j - 1) : IsContent(lines[k])
    /\ j <= Len(lines) => (IsMarker(lines[j]) \/ strip(lines[j]) = <<FENCE>>)

\* C27: the entry of a name that was opened again holds the lines captured
\* after the last marker of the name, and nothing of an earlier capture.
C27_ReopenOverwrites ==
    call.op = "_parse_response" =>
        \A i \in DOMAIN Lines, j \in 1..(Len(Lines) + 1) :
            (LastReopening(Lines, i, j) /\ MarkerName(Lines[i]) \in ResultNames)
                => Entry(MarkerName(Lines[i])) = join(SubSeq(Lines, i + 1, j - 1), NL)

\* The same when the last marker of the name captures at least one line
ReopenWithContentOverwrites ==
    call.op = "_parse_response" =>
        \A i \in DOMAIN Lines, j \in 1..(Len(Lines) + 1) :
            (LastReopening(Lines, i, j) /\ j > i + 1 /\ MarkerName(Lines[i]) \in AgentAllowed)
                => /\ MarkerName(Lines[i]) \in ResultNames
                   /\ Entry(MarkerName(Lines[i])) = join(SubSeq(Lines, i + 1, j - 1), NL)

\* C30: extract_yaml_from_response returns a dict for every text.
C30_ExtractTotal ==
    call.op = "extract_yaml_from_response" => ret.exc = "none"

\* extract_yaml_from_response raises only on a marker line with no name
ExtractRaisesOnlyOnBareMarker ==
    (call.op = "extract_yaml_from_response" /\ ret.exc # "none") =>
        /\ ret.exc = "IndexError"
        /\ \E i \in DOMAIN Lines : IsMarker(Lines[i]) /\ MarkerName(Lines[i]) = <<>>

\* ---------------------------------------------------------------------------
\* YAMLHandler.merge
\* ---------------------------------------------------------------------------

\* The largest number of keys, nested ones included, of a document
MaxEntries == 3

\* YAML values: a string, a list, or a dict held as its items in insertion
\* order
Str(s) == [t |-> "str", v |-> s]

List(items) == [t |-> "list", v |-> items]

Dict(items) == [t |-> "dict", v |-> items]

isinstance_dict(x) == x.t = "dict"

dict_get(d, k) == d[CHOOSE i \in DOMAIN d : d[i][1] = k][2]

dict_keys(d) == {d[i][1] : i \in DOMAIN d}

\* Python's == on YAML values: dicts are equal when they hold equal values
\* under the same keys, in whatever order
RECURSIVE eq(_, _)
eq(x, y) ==
    IF isinstance_dict(x) /\ isinstance_dict(y)
    THEN /\ dict_keys(x.v) = dict_keys(y.v)
         /\ \A k \in dict_keys(x.v) : eq(dict_get(x.v, k), dict_get(y.v, k))
    ELSE x = y

RECURSIVE merge(_, _)
RECURSIVE merge_items(_, _)
RECURSIVE merge_items_shallow(_, _)
RECURSIVE merge_items_extend(_, _)

\* A loop that assigns every value of update, merging nothing
merge_items_shallow(result, items) ==
    IF items = <<>> THEN result
    ELSE merge_items_shallow(dict_set(result, Head(items)[1], Head(items)[2]), Tail(items))

\* A loop that also joins two lists under one key
merge_items_extend(result, items) ==
    IF items = <<>> THEN result
    ELSE LET key == Head(items)[1]
             value == Head(items)[2]
             new == IF dict_has(result, key) /\ isinstance_dict(dict_get(result, key))
                       /\ isinstance_dict(value)
                    THEN merge(dict_get(result, key), value)
                    ELSE IF dict_has(result, key) /\ dict_get(result, key).t = "list"
                            /\ value.t = "list"
                    THEN List(dict_get(result, key).v \o value.v)
                    ELSE value
         IN  merge_items_extend(dict_set(result, key, new), Tail(items))

\* The loop of YAMLHandler.merge over update.items()
merge_items(result, items) ==
    IF items = <<>> THEN result
    ELSE LET key == Head(items)[1]
             value == Head(items)[2]
             new == IF dict_has(result, key) /\ isinstance_dict(dict_get(result, key))
                       /\ isinstance_dict(value)
                    THEN merge(dict_get(result, key), value)
                    ELSE value
         IN  merge_items(dict_set(result, key, new), Tail(items))

\* YAMLHandler.merge
merge(base, update) == Dict(merge_items(base.v, update.v))

\* The keys and the leaves of the documents
Keys == <<"a", "b">>

Leaves == {Str(<<"s">>), Str(<<"t">>), List(<<Str(<<"s">>)>>)}

RECURSIVE ItemsOfSize(_, _)
RECURSIVE ValuesOfSize(_)

\* The values that take n entries, the entry of their own key included
ValuesOfSize(n) ==
    IF n = 1 THEN Leaves \cup {Dict(<<>>)}
    ELSE {Dict(d) : d \in ItemsOfSize(1, n - 1)}

\* The items of the dicts with n entries over the keys from the i-th on
ItemsOfSize(i, n) ==
    IF i > Len(Keys) THEN (IF n = 0 THEN {<<>>} ELSE {})
    ELSE ItemsOfSize(i + 1, n)
         \cup UNION {{<<<<Keys[i], v>>>> \o rest :
                          v \in ValuesOfSize(k), rest \in ItemsOfSize(i + 1, n - k)} :
                     k \in 1..n}

Docs == {Dict(d) : d \in UNION {ItemsOfSize(1, n) : n \in 0..MaxEntries}}

\* YAMLHandler.merge is applied to the two documents
YAML_merge ==
    /\ call.op = "input"
    /\ call' = [op |-> "merge", base |-> call.base, update |-> call.update]
    /\ ret' = [exc |-> "none", val |-> merge(call.base, call.update)]
    /\ UNCHANGED <<fs, dirs, clock, env, agent, pc, batch, results, io, fs0, dirs0, cm, runs>>

\* Two documents for merge
InitMerge ==
    /\ \E base \in Docs, update \in Docs :
           call = [op |-> "input", base |-> base, update |-> update]
    /\ ret = NoRet
    /\ env = Env("dry_run", <<"true">>, <<"true">>, SANDBOX_DIR, <<>>)
    /\ agent = AIAgent(env)
    /\ fs = <<>>
    /\ dirs = {CONFIG_DIR}
    /\ clock = 0
    /\ pc = "none"
    /\ batch = <<>>
    /\ results = <<>>
    /\ io = <<>>
    /\ fs0 = fs
    /\ dirs0 = dirs
    /\ cm = [config_dir |-> CONFIG_DIR]
    /\ runs = 0

NextMerge == YAML_merge

SpecMerge == InitMerge /\ [][NextMerge]_vars

\* The depth of nesting of a value: 0 for a leaf
RECURSIVE depth(_)
depth(x) ==
    IF ~isinstance_dict(x) THEN 0
    ELSE IF x.v = <<>> THEN 1
    ELSE 1 + (CHOOSE m \in {depth(x.v[i][2]) : i \in DOMAIN x.v} :
                  \A i \in DOMAIN x.v : depth(x.v[i][2]) <= m)

\* The value has a list somewhere
RECURSIVE has_list(_)
has_list(x) ==
    IF isinstance_dict(x) THEN \E i \in DOMAIN x.v : has_list(x.v[i][2])
    ELSE x.t = "list"

\* C22: merge(a, a) == a for every document a.
C22_MergeIdempotent ==
    (call.op = "merge" /\ call.base = call.update) => eq(ret.val, call.base)

\* a document with a nested mapping and a list was merged with itself
C22_Witness ==
    /\ call.op = "merge"
    /\ call.base = call.update
    /\ depth(call.base) >= 2
    /\ has_list(call.base)
    /\ eq(ret.val, call.base)

\* The recursive right-biased union of two mappings: the keys of both, with
\* the union of the two values where both are mappings, the value of update
\* for its other keys, and the value of base for the keys only base has
RECURSIVE RightBiasedUnion(_, _)
RightBiasedUnion(base, update) ==
    LET only_base == SelectSeq(base.v, LAMBDA item : ~dict_has(update.v, item[1]))
        value(k) == IF dict_has(base.v, k) /\ isinstance_dict(dict_get(base.v, k))
                       /\ isinstance_dict(dict_get(update.v, k))
                    THEN RightBiasedUnion(dict_get(base.v, k), dict_get(update.v, k))
                    ELSE dict_get(update.v, k)
    IN  Dict(only_base \o [i \in DOMAIN update.v |-> <<update.v[i][1], value(update.v[i][1])>>])

\* C23: merge(base, update) is the recursive right-biased union of base and
\* update.
C23_MergeRightBiasedUnion ==
    call.op = "merge" => eq(ret.val, RightBiasedUnion(call.base, call.update))

\* two mappings under one key were merged: a list of base was replaced by a
\* string of update, and a key only base has was kept
C23_Witness ==
    /\ call.op = "merge"
    /\ call.base = Dict(<<<<"a", Dict(<<<<"a", List(<<Str(<<"s">>)>>)>>,
                                        <<"b", Str(<<"s">>)>>>>)>>>>)
    /\ call.update = Dict(<<<<"a", Dict(<<<<"a", Str(<<"t">>)>>>>)>>>>)
    /\ ret.val = Dict(<<<<"a", Dict(<<<<"a", Str(<<"t">>)>>, <<"b", Str(<<"s">>)>>>>)>>>>)

\* ---------------------------------------------------------------------------
\* The MCP server (mcp_server.py)
\* ---------------------------------------------------------------------------

\* The largest number of tool calls made to one server
MaxCalls == 2

configuration_yaml == <<"configuration", ".", "yaml">>

\* ALLOWED_FILES of the server when the environment sets none
MCP_ALLOWED_FILES == <<automations_yaml, scripts_yaml, scenes_yaml, configuration_yaml>>

\* Python's None among the YAML values
NoneVal == [t |-> "none", v |-> <<>>]

\* The text yaml.dump writes for a value, and a text that is not YAML
yaml_dump(content) == <<"yaml", content>>

InvalidYaml == <<"!">>

\* yaml.safe_load: None for an empty text, the value of a YAML text, and
\* YAMLError otherwise
yaml_safe_load(text) ==
    IF text = <<>> THEN [exc |-> "none", val |-> NoneVal]
    ELSE IF Head(text) = "yaml" THEN [exc |-> "none", val |-> text[2]]
    ELSE [exc |-> "YAMLError", val |-> NoneVal]

\* HAClient.call_service: the POST is logged; it raises when the response is
\* an error
call_service(w, domain, service, ok) ==
    IF w.exc # "none" THEN w
    ELSE [w EXCEPT !.exc = IF ok THEN "none" ELSE "HTTPStatusError",
                   !.io = Append(@, [op |-> "call_service", path |-> <<domain, service>>,
                                     src |-> NoPath, existed |-> FALSE, old |-> <<>>,
                                     ok |-> ok])]

\* backup_file(filepath)
backup_file(w, filepath, now) ==
    IF ~exists(w.fs, filepath) THEN Result(w, None)
    ELSE LET made == mkdir(w, BACKUP_DIR)
             backup_path == PathJoin(BACKUP_DIR, backup_name(filepath[2], now))
         IN  Result(write_text(made, backup_path, w.fs[filepath].data, now), backup_path)

\* read_yaml_file(filename): the pair (content, error), or the exception of
\* yaml.safe_load
read_yaml_file(w, filename) ==
    LET filepath == PathJoin(CONFIG_DIR, filename)
    IN  IF ~\E i \in DOMAIN MCP_ALLOWED_FILES : MCP_ALLOWED_FILES[i] = filename
        THEN [exc |-> "none", content |-> NoneVal, error |-> "not allowed"]
        ELSE IF ~exists(w.fs, filepath)
        THEN [exc |-> "none", content |-> NoneVal, error |-> "missing"]
        ELSE [exc |-> yaml_safe_load(w.fs[filepath].data).exc,
              content |-> yaml_safe_load(w.fs[filepath].data).val, error |-> ""]

\* write_yaml_file(filename, content)
write_yaml_file(w, filename, content, now) ==
    LET filepath == PathJoin(CONFIG_DIR, filename)
        backed == backup_file(w, filepath, now).w
    IN  IF ~\E i \in DOMAIN MCP_ALLOWED_FILES : MCP_ALLOWED_FILES[i] = filename
        THEN Result(w, [success |-> FALSE, message |-> "not allowed"])
        ELSE Result(write_text(backed, filepath, yaml_dump(content), now),
                    [success |-> TRUE, message |-> "saved"])

\* The values the tools return in read_only and in dry_run
ReadOnlyError(mode) == [error |-> "read_only", mode |-> mode]

DryRunPreview(would) == [dry_run |-> TRUE, would |-> would]

\* content.append(item): a list has it, a dict does not
list_append(w, content, item) ==
    IF content.t = "list" THEN Result(w, List(Append(content.v, item)))
    ELSE Result(Raise(w, "AttributeError"), content)

\* content[key] = item: a dict takes any key, a list only integers
setitem(w, content, key, item) ==
    IF content.t = "dict" THEN Result(w, Dict(dict_set(content.v, key, item)))
    ELSE Result(Raise(w, "TypeError"), content)

\* The branches config_add_automation and config_add_scene of _execute_tool
config_add_item(mode, w, filename, item, now) ==
    LET read == read_yaml_file(w, filename)
        content == IF read.error # "" \/ read.content = NoneVal THEN List(<<>>)
                   ELSE read.content
        added == list_append(w, content, item)
    IN  IF mode = "read_only" THEN Result(w, ReadOnlyError(mode))
        ELSE IF read.exc # "none" THEN Result(Raise(w, read.exc), None)
        ELSE IF added.w.exc # "none" THEN added
        ELSE IF mode = "dry_run" THEN Result(w, DryRunPreview(item))
        ELSE write_yaml_file(w, filename, added.val, now)

\* The branch config_add_script of _execute_tool
config_add_script(mode, w, script_id, script, now) ==
    LET read == read_yaml_file(w, scripts_yaml)
        content == IF read.error # "" \/ read.content = NoneVal THEN Dict(<<>>)
                   ELSE read.content
        added == setitem(w, content, script_id, script)
    IN  IF mode = "read_only" THEN Result(w, ReadOnlyError(mode))
        ELSE IF read.exc # "none" THEN Result(Raise(w, read.exc), None)
        ELSE IF added.w.exc # "none" THEN added
        ELSE IF mode = "dry_run" THEN Result(w, DryRunPreview(script_id))
        ELSE write_yaml_file(w, scripts_yaml, added.val, now)

\* The branch config_write of _execute_tool
config_write(mode, w, filename, content, now) ==
    IF mode = "read_only" THEN Result(w, ReadOnlyError(mode))
    ELSE IF mode = "dry_run" THEN Result(w, DryRunPreview(filename))
    ELSE write_yaml_file(w, filename, content, now)

\* The branches ha_call_service and mqtt_publish of _execute_tool: one
\* service call
ha_call_service(mode, w, domain, service, ok) ==
    IF mode = "read_only" THEN Result(w, ReadOnlyError(mode))
    ELSE IF mode = "dry_run" THEN Result(w, DryRunPreview(<<domain, service>>))
    ELSE Result(call_service(w, domain, service, ok), [success |-> TRUE])

\* The branch ha_reload of _execute_tool
ha_reload(mode, w, component, ok) ==
    IF mode = "read_only" THEN Result(w, ReadOnlyError(mode))
    ELSE IF mode = "dry_run" THEN Result(w, DryRunPreview(component))
    ELSE IF component = "all"
    THEN Result(call_service(w, "homeassistant", "reload_all", ok), [success |-> TRUE])
    ELSE IF component = "core"
    THEN Result(call_service(w, "homeassistant", "reload_core_config", ok), [success |-> TRUE])
    ELSE Result(call_service(w, component, "reload", ok), [success |-> TRUE])

\* The arguments the tools are called with
Automation == Dict(<<<<"alias", Str(<<"x">>)>>>>)

Script == Dict(<<<<"alias", Str(<<"y">>)>>>>)

Scene == Dict(<<<<"name", Str(<<"z">>)>>>>)

MCPNames == {automations_yaml, configuration_yaml, secrets_yaml}

Components == {"all", "core", "automation"}

\* A tool call returns: the files, the directories and the log are as the
\* call left them, and the result or the exception is recorded
MCPReturns(r, c) ==
    \E v \in {r} :
        /\ runs < MaxCalls
        /\ runs' = runs + 1
        /\ fs' = v.w.fs
        /\ dirs' = v.w.dirs
        /\ io' = v.w.io
        /\ call' = c
        /\ ret' = [exc |-> v.w.exc, val |-> IF v.w.exc = "none" THEN v.val ELSE None]
        /\ UNCHANGED <<clock, env, agent, pc, batch, results, fs0, dirs0, cm>>

MCPWorld == World(fs, dirs, io, 0, FALSE)

MCP_config_write ==
    \E filename \in MCPNames :
        MCPReturns(config_write(env.AI_MODE, MCPWorld, filename, Dict(<<>>), clock),
                   [op |-> "config_write", filename |-> filename])

MCP_config_add_automation ==
    MCPReturns(config_add_item(env.AI_MODE, MCPWorld, automations_yaml, Automation, clock),
               [op |-> "config_add_automation"])

MCP_config_add_script ==
    MCPReturns(config_add_script(env.AI_MODE, MCPWorld, "s1", Script, clock),
               [op |-> "config_add_script"])

MCP_config_add_scene ==
    MCPReturns(config_add_item(env.AI_MODE, MCPWorld, scenes_yaml, Scene, clock),
               [op |-> "config_add_scene"])

MCP_ha_call_service ==
    \E ok \in BOOLEAN :
        MCPReturns(ha_call_service(env.AI_MODE, MCPWorld, "light", "turn_on", ok),
                   [op |-> "ha_call_service"])

MCP_mqtt_publish ==
    \E ok \in BOOLEAN :
        MCPReturns(ha_call_service(env.AI_MODE, MCPWorld, "mqtt", "publish", ok),
                   [op |-> "mqtt_publish"])

MCP_ha_reload ==
    \E component \in Components, ok \in BOOLEAN :
        MCPReturns(ha_reload(env.AI_MODE, MCPWorld, component, ok),
                   [op |-> "ha_reload", component |-> component])

\* The texts the configuration files hold when the server starts: an empty
\* file, a list, a mapping, and a text yaml.safe_load rejects
MCPTexts == {<<>>, yaml_dump(List(<<>>)), yaml_dump(Dict(<<>>)), InvalidYaml}

\* A server in one of the three modes over a configuration root in which
\* each of automations.yaml, scripts.yaml and scenes.yaml is missing or holds
\* one of the texts
InitMCP ==
    /\ \E mode \in {"read_only", "dry_run", "apply"} :
           env = Env(mode, <<"true">>, <<"true">>, SANDBOX_DIR, <<>>)
    /\ \E present \in SUBSET {automations_yaml, scripts_yaml, scenes_yaml} :
           \E text \in [present -> MCPTexts] :
               fs = [path \in {PathJoin(CONFIG_DIR, f) : f \in present} |->
                         File(text[path[2]], 0)]
    /\ agent = AIAgent(env)
    /\ dirs = {CONFIG_DIR}
    /\ clock = 0
    /\ pc = "none"
    /\ batch = <<>>
    /\ results = <<>>
    /\ io = <<>>
    /\ fs0 = fs
    /\ dirs0 = dirs
    /\ cm = [config_dir |-> CONFIG_DIR]
    /\ call = NoCall
    /\ ret = NoRet
    /\ runs = 0

NextMCP ==
    \/ MCP_config_write
    \/ MCP_config_add_automation
    \/ MCP_config_add_script
    \/ MCP_config_add_scene
    \/ MCP_ha_call_service
    \/ MCP_mqtt_publish
    \/ MCP_ha_reload

SpecMCP == InitMCP /\ [][NextMCP]_vars

GatedTools ==
    {"config_write", "config_add_automation", "config_add_script", "config_add_scene",
     "ha_call_service", "mqtt_publish", "ha_reload"}

\* C28: in read_only and in dry_run, after any sequence of calls of the gated
\* tools the files and directories are those the server started with and
\* nothing was written, backed up or sent to Home Assistant; every call in
\* read_only returned an error value and every call in dry_run a preview.
C28_ModeGate ==
    (call.op \in GatedTools /\ env.AI_MODE \in {"read_only", "dry_run"}) =>
        /\ fs = fs0
        /\ dirs = dirs0
        /\ io = <<>>
        /\ ret.exc = "none"
        /\ env.AI_MODE = "read_only" => "error" \in DOMAIN ret.val
        /\ env.AI_MODE = "dry_run" => "dry_run" \in DOMAIN ret.val

\* The first half alone: no write, no backup and no service call
ModeGateNoEffect ==
    env.AI_MODE \in {"read_only", "dry_run"} => (fs = fs0 /\ dirs = dirs0 /\ io = <<>>)

\* In read_only every gated tool returns the error value
ReadOnlyReturnsError ==
    (call.op \in GatedTools /\ env.AI_MODE = "read_only") =>
        (ret.exc = "none" /\ ret.val = ReadOnlyError("read_only"))

\* A state of a server in apply in which a gated tool has backed a file up
\* and another has called a service
ApplyHasEffect ==
    /\ env.AI_MODE = "apply"
    /\ \E i \in DOMAIN io : io[i].op = "call_service"
    /\ \E i \in DOMAIN io : io[i].op = "write" /\ io[i].path[1] = BACKUP_DIR

\* ---------------------------------------------------------------------------
\* Backup names and the names recovered from them
\* ---------------------------------------------------------------------------

\* The largest number of atoms of a file name
MaxNameLen == 4

\* The atoms of the file names: a word, the dot, the extension of the
\* backups, and a word that reads as a timestamp
NameAtoms == {"a", DOT, "bak", "0"}

\* The file names: every sequence of atoms but the two directory entries
\* "." and ".."
FileNames ==
    UNION {[1..n -> NameAtoms] : n \in 1..MaxNameLen} \ {<<DOT>>, <<DOT, DOT>>}

\* create_backup is called for the one allowed file
Names_create_backup ==
    /\ call.op = "none"
    /\ \E fail \in 0..Attempts(create_backup(cm, World(fs, dirs, <<>>, 0, FALSE),
                                             cm.allowed_files[1], clock)) :
       \E torn \in (IF fail = 0 THEN {FALSE} ELSE BOOLEAN) :
           Returns(create_backup(cm, World(fs, dirs, <<>>, fail, torn),
                                 cm.allowed_files[1], clock),
                   [op |-> "create_backup", filename |-> cm.allowed_files[1], now |-> clock])
    /\ CMFrame

\* restore_backup is called with the path create_backup returned
Names_restore_backup ==
    /\ call.op = "create_backup"
    /\ ret.exc = "none"
    /\ ret.val # None
    /\ \E fail \in 0..Attempts(restore_backup(cm, World(fs, dirs, <<>>, 0, FALSE),
                                              ret.val, clock)) :
       \E torn \in (IF fail = 0 THEN {FALSE} ELSE BOOLEAN) :
           Returns(restore_backup(cm, World(fs, dirs, <<>>, fail, torn), ret.val, clock),
                   [op |-> "restore_backup", backup_path |-> ret.val, now |-> clock])
    /\ CMFrame

\* A ConfigManager whose allow-list is one file name, over a configuration
\* root that holds that file
InitNames ==
    /\ \E filename \in FileNames :
           /\ cm = ConfigManager(CONFIG_DIR, BACKUP_DIR, SANDBOX_DIR, <<filename>>)
           /\ fs = (PathJoin(CONFIG_DIR, filename) :> File(DataA, 0))
    /\ dirs = {CONFIG_DIR, BACKUP_DIR, SANDBOX_DIR}
    /\ clock = 0
    /\ env = [mode |-> "none"]
    /\ agent = [mode |-> "none"]
    /\ pc = "none"
    /\ batch = <<>>
    /\ results = <<>>
    /\ ret = NoRet
    /\ io = <<>>
    /\ fs0 = fs
    /\ dirs0 = dirs
    /\ call = NoCall
    /\ runs = 0

NextNames ==
    \/ Names_create_backup
    \/ Names_restore_backup
    \/ Tick

SpecNames == InitNames /\ [][NextNames]_vars

\* The number of dots of a name
Dots(name) == Cardinality({i \in DOMAIN name : name[i] = DOT})

\* C29: the name restore_backup derives from the name create_backup gave to
\* a backup of f is f, and a restore of that backup targets f in the
\* configuration root.
C29_NameRoundTrip ==
    /\ (call.op = "create_backup" /\ ret.exc = "none" /\ ret.val # None) =>
           /\ ret.val = PathJoin(BACKUP_DIR, backup_name(call.filename, call.now))
           /\ original_name(ret.val[2]) = call.filename
    /\ (call.op = "restore_backup" /\ ret.exc = "none") =>
           /\ original_name(call.backup_path[2]) = cm.allowed_files[1]
           /\ ret.val = PathJoin(CONFIG_DIR, cm.allowed_files[1])
           /\ io[Len(io)].op = "copy"
           /\ io[Len(io)].src = call.backup_path
           /\ io[Len(io)].path = PathJoin(CONFIG_DIR, cm.allowed_files[1])

\* a backup of a file whose name has several dots and ends like a backup was
\* restored
C29_Witness ==
    /\ call.op = "restore_backup"
    /\ ret.exc = "none"
    /\ Dots(cm.allowed_files[1]) >= 2
    /\ endswith(cm.allowed_files[1], <<DOT, "0", DOT, "bak">>)
    /\ ret.val = PathJoin(CONFIG_DIR, cm.allowed_files[1])

====
